---- MODULE Spec2Model ----
(***************************************************************************)
(* Model of slice-of-array (src/lib.rs): viewing a slice as a slice of     *)
(* arrays (nest), a slice of arrays as a slice (flat), and a slice as one  *)
(* array (as_array), for shared and exclusive borrows.                     *)
(*                                                                         *)
(* A slice is a pointer, a length and an element type.  An element type is *)
(* a shape: <<>> is the base type T, <<N>> \o s is [E; N] with E of shape  *)
(* s.  Memory is the owner's storage of T values; every view reads and     *)
(* writes it through its pointer, so that aliasing is observable.          *)
(* usize arithmetic is WordBits wide.                                      *)
(***************************************************************************)
EXTENDS Integers, Sequences, FiniteSets, TLC

\* ---- bounds of the model ----
WordBits == 5
MaxLen == 2
MaxLEN == 2
MaxChain == 3
MaxWrites == 1

UsizeMax == 2^WordBits - 1
IsizeMax == 2^(WordBits - 1) - 1

Unit == 0
CellValues == {1, 2}
ValuesT(sz) == IF sz = 0 THEN {Unit} ELSE CellValues
Offsets == {0, 1}
SizesT == {0, 1}

\* the crate-level doc example (lib.rs 46-47)
DocNested == << <<2, 2, 2>>, <<7, 7, 7>>, <<4, 4, 4>>, <<1, 1, 1>> >>
DocFlat == <<2, 2, 2, 7, 7, 7, 4, 4, 4, 1, 1, 1>>

VARIABLES sizeT, mem, stack, last, wrote, writes, pc
vars == <<sizeT, mem, stack, last, wrote, writes, pc>>

\* ---- types and layout ----
RECURSIVE SizeOf(_, _)
SizeOf(sz, shape) ==
    IF shape = <<>> THEN sz ELSE Head(shape) * SizeOf(sz, Tail(shape))

RECURSIVE AlignOf(_, _)
AlignOf(sz, shape) ==
    IF shape = <<>> THEN (IF sz = 0 THEN 1 ELSE sz) ELSE AlignOf(sz, Tail(shape))

RECURSIVE Prod(_)
Prod(shape) == IF shape = <<>> THEN 1 ELSE Head(shape) * Prod(Tail(shape))

\* impl IsSliceomorphic for [T; N]: Element = T, LEN = N
LEN(V) == Head(V)
Element(V) == Tail(V)
ArrayOf(E, N) == <<N>> \o E

\* the array type [E; N] exists only if its size fits isize
TypeExists(sz, V) == Prod(V) * sz <= IsizeMax /\ \A k \in 1..Len(V) : V[k] <= UsizeMax

\* ---- memory ----
ReadT(sz, m, addr) == IF sz = 0 THEN Unit ELSE m[(addr \div sz) + 1]

RECURSIVE ReadVal(_, _, _, _)
ReadVal(sz, m, addr, shape) ==
    IF shape = <<>> THEN ReadT(sz, m, addr)
    ELSE [j \in 1..Head(shape) |->
            ReadVal(sz, m, addr + (j - 1) * SizeOf(sz, Tail(shape)), Tail(shape))]

\* element i (from 0) of a slice, and the whole slice
Elem(sz, m, v, i) == ReadVal(sz, m, v.ptr + i * SizeOf(sz, v.shape), v.shape)
Elems(sz, m, v) == [i \in 1..v.len |-> Elem(sz, m, v, i - 1)]

\* store value x (all its cells) into the element at addr of the given shape
WriteCells(sz, m, addr, shape, x) ==
    IF sz = 0 THEN m
    ELSE [c \in 1..Len(m) |->
            IF c - 1 >= addr \div sz /\ c - 1 < (addr \div sz) + Prod(shape)
            THEN x ELSE m[c]]

\* ---- panic messages ----
RECURSIVE Digits(_)
Digits(n) == IF n < 10 THEN <<n>> ELSE Append(Digits(n \div 10), n % 10)

Lit(s) == [kind |-> "lit", text |-> s, digits |-> <<>>]
Num(n) == [kind |-> "num", text |-> "", digits |-> Digits(n)]

\* assert_eq!/assert_ne! panic text: the custom message, then both operands
AssertMsg(custom, left, right) ==
    <<Lit("assertion failed: ")>> \o custom
        \o <<Lit(" left: "), Num(left), Lit(" right: "), Num(right)>>

NoView == [ptr |-> 0, len |-> 0, shape |-> <<>>, mut |-> FALSE]
NoWrite == [op |-> "none", LEN |-> 0, view |-> NoView, input |-> NoView,
            i |-> 0, j |-> 0, x |-> Unit, old |-> <<>>]
NoCall == [op |-> "none", n |-> 0, LEN |-> 0, kind |-> "Ok", msg |-> <<>>,
           input |-> NoView, ret |-> NoView, val |-> <<>>]

Panic(op, self, N, kind, msg) ==
    [op |-> op, n |-> self.len, LEN |-> N, kind |-> kind, msg |-> msg,
     input |-> self, ret |-> NoView, val |-> <<>>]
Return(op, self, N, ret, val) ==
    [op |-> op, n |-> self.len, LEN |-> N, kind |-> "Ok", msg |-> <<>>,
     input |-> self, ret |-> ret, val |-> val]

\* ---- the checks ----
validate_alignment_and_size(sz, V) ==
    IF AlignOf(sz, Element(V)) # AlignOf(sz, V)
    THEN AssertMsg(<<>>, AlignOf(sz, Element(V)), AlignOf(sz, V))
    ELSE IF (LEN(V) * SizeOf(sz, Element(V))) % 2^WordBits # SizeOf(sz, V)
    THEN AssertMsg(<<>>, (LEN(V) * SizeOf(sz, Element(V))) % 2^WordBits, SizeOf(sz, V))
    ELSE <<>>

\* validate_nest_assumptions without its divisibility assertion
validate_nest_no_divisibility(sz, V, len, prefix) ==
    IF 0 = LEN(V)
    THEN <<"ZeroLengthGroup",
           AssertMsg(<<Lit("cannot nest arrays of length 0")>>, 0, LEN(V))>>
    ELSE <<"Ok", <<>> >>

\* validate_nest_assumptions formatting V::LEN where the length belongs
validate_nest_wrong_argument(sz, V, len, prefix) ==
    IF 0 = LEN(V)
    THEN <<"ZeroLengthGroup",
           AssertMsg(<<Lit("cannot nest arrays of length 0")>>, 0, LEN(V))>>
    ELSE IF 0 # len % LEN(V)
    THEN <<"LengthMismatch",
           AssertMsg(<<Lit("cannot view slice of length "), Num(LEN(V)), Lit(" as "),
                       Lit(prefix), Lit("[[_; "), Num(LEN(V)), Lit("]]")>>,
                     0, len % LEN(V))>>
    ELSE <<"Ok", <<>> >>

\* result: <<kind, message>>
validate_nest_assumptions(sz, V, len, prefix) ==
    IF validate_alignment_and_size(sz, V) # <<>>
    THEN <<"LayoutAssert", validate_alignment_and_size(sz, V)>>
    ELSE IF 0 = LEN(V)
    THEN <<"ZeroLengthGroup",
           AssertMsg(<<Lit("cannot nest arrays of length 0")>>, 0, LEN(V))>>
    ELSE IF 0 # len % LEN(V)
    THEN <<"LengthMismatch",
           AssertMsg(<<Lit("cannot view slice of length "), Num(len), Lit(" as "),
                       Lit(prefix), Lit("[[_; "), Num(LEN(V)), Lit("]]")>>,
                     0, len % LEN(V))>>
    ELSE <<"Ok", <<>> >>

\* validate_as_array_assumptions rejecting only slices that are too short
validate_as_array_too_short_only(sz, V, len, prefix) ==
    IF len < LEN(V)
    THEN <<"LengthMismatch",
           AssertMsg(<<Lit("cannot view slice of length "), Num(len), Lit(" as "),
                       Lit(prefix), Lit("[_; "), Num(LEN(V)), Lit("]")>>,
                     len, LEN(V))>>
    ELSE <<"Ok", <<>> >>

\* validate_as_array_assumptions accepting every length V::LEN divides
validate_as_array_divisible(sz, V, len, prefix) ==
    IF (LEN(V) = 0 /\ len # 0) \/ (LEN(V) # 0 /\ len % LEN(V) # 0)
    THEN <<"LengthMismatch",
           AssertMsg(<<Lit("cannot view slice of length "), Num(len), Lit(" as "),
                       Lit(prefix), Lit("[_; "), Num(LEN(V)), Lit("]")>>,
                     len, LEN(V))>>
    ELSE <<"Ok", <<>> >>

validate_as_array_assumptions(sz, V, len, prefix) ==
    IF validate_alignment_and_size(sz, V) # <<>>
    THEN <<"LayoutAssert", validate_alignment_and_size(sz, V)>>
    ELSE IF len # LEN(V)
    THEN <<"LengthMismatch",
           AssertMsg(<<Lit("cannot view slice of length "), Num(len), Lit(" as "),
                       Lit(prefix), Lit("[_; "), Num(LEN(V)), Lit("]")>>,
                     len, LEN(V))>>
    ELSE <<"Ok", <<>> >>

\* ---- the operations, as functions of the borrowed slice ----
from_raw_parts(ptr, len, E, mutable) ==
    [ptr |-> ptr, len |-> len, shape |-> E, mut |-> mutable]

\* the flat length without the factor V::LEN
flat_len_unscaled(self) == self.len

\* flat / flat_mut on self : [V]
flat_len(self) == self.len * LEN(self.shape)

flat_call(op, sz, checks, self, mutable) ==
    LET V == self.shape IN
    IF validate_alignment_and_size(sz, V) # <<>>
    THEN Panic(op, self, LEN(V), "LayoutAssert", validate_alignment_and_size(sz, V))
    ELSE IF flat_len(self) > UsizeMax /\ checks
    THEN Panic(op, self, LEN(V), "Overflow",
               <<Lit("attempt to multiply with overflow")>>)
    ELSE Return(op, self, LEN(V),
                from_raw_parts(self.ptr, flat_len(self) % 2^WordBits, Element(V), mutable),
                <<>>)

\* the nested length taken to be the group size
nest_len_group_size(self, N) == N

\* nest / nest_mut on self : [T] with target V = [T; N]
nest_len(self, N) == self.len \div N

nest_call(op, sz, self, N, mutable) ==
    LET V == ArrayOf(self.shape, N)
        chk == validate_nest_assumptions(sz, V, self.len, IF mutable THEN "&mut " ELSE "&")
    IN  IF chk[1] # "Ok" THEN Panic(op, self, N, chk[1], chk[2])
        ELSE Return(op, self, N,
                    from_raw_parts(self.ptr, nest_len(self, N), V, mutable), <<>>)

\* as_array / as_mut_array on self : [T] with target V = [T; N]; the
\* reference to V is a view of one V at the slice's address
as_array_call(op, sz, self, N, mutable) ==
    LET V == ArrayOf(self.shape, N)
        chk == validate_as_array_assumptions(sz, V, self.len, IF mutable THEN "&mut " ELSE "&")
    IN  IF chk[1] # "Ok" THEN Panic(op, self, N, chk[1], chk[2])
        ELSE Return(op, self, N, from_raw_parts(self.ptr, 1, V, mutable), <<>>)

\* to_array: self.as_array::<V>().clone()
to_array_call(sz, m, self, N) ==
    LET r == as_array_call("to_array", sz, self, N, FALSE) IN
    IF r.kind # "Ok" THEN r
    ELSE [r EXCEPT !.ret = NoView, !.val = <<Elem(sz, m, r.ret, 0)>>]

\* ---- the program ----
Storages ==
    {<<>>} \cup UNION {[1..n -> CellValues] : n \in 1..MaxLen} \cup {DocFlat}

InitLens == (0..MaxLen) \cup {UsizeMax, Len(DocFlat), Len(DocNested)}
InitShapes == {<<>>} \cup {<<K>> : K \in (0..MaxLEN) \cup {UsizeMax, Len(DocNested[1])}}

\* group sizes a caller may ask for on a slice of element type E
GroupSizes(sz, self) ==
    {N \in (0..MaxLEN) \cup {UsizeMax, self.len} :
        TypeExists(sz, ArrayOf(self.shape, N))}

\* a borrow: the view and the call that returned it
Frame(op, N, v) == [op |-> op, LEN |-> N, view |-> v]
top == stack[Len(stack)].view

Init ==
    /\ sizeT \in SizesT
    /\ mem \in Storages
    /\ sizeT = 0 => mem = <<>>
    /\ Len(mem) * sizeT <= IsizeMax
    /\ \E off \in Offsets, n \in InitLens, s \in InitShapes :
          /\ off <= Len(mem)
          /\ TypeExists(sizeT, s)
          /\ IF SizeOf(sizeT, s) = 0 THEN mem = <<>> ELSE n * Prod(s) <= Len(mem) - off
          /\ stack = <<Frame("owner", 0,
                         [ptr |-> off * sizeT, len |-> n, shape |-> s, mut |-> TRUE])>>
    /\ last = NoCall
    /\ wrote = NoWrite
    /\ writes = 0
    /\ pc = "running"

\* the call returned or panicked
Finish(r, borrows) ==
    /\ last' = r
    /\ IF r.kind # "Ok" THEN pc' = "panicked" /\ stack' = stack
       ELSE /\ pc' = pc
            /\ stack' = IF borrows THEN Append(stack, Frame(r.op, r.LEN, r.ret)) ELSE stack
    /\ UNCHANGED <<sizeT, mem, wrote, writes>>

CanCall == pc = "running" /\ Len(stack) < MaxChain

\* the build either checks arithmetic overflow (and panics) or wraps
flat ==
    /\ CanCall /\ top.shape # <<>>
    /\ \E overflow_checks \in BOOLEAN :
          Finish(flat_call("flat", sizeT, overflow_checks, top, FALSE), TRUE)

flat_mut ==
    /\ CanCall /\ top.shape # <<>> /\ top.mut
    /\ \E overflow_checks \in BOOLEAN :
          Finish(flat_call("flat_mut", sizeT, overflow_checks, top, TRUE), TRUE)

nest ==
    /\ CanCall
    /\ \E N \in GroupSizes(sizeT, top) :
          Finish(nest_call("nest", sizeT, top, N, FALSE), TRUE)

nest_mut ==
    /\ CanCall /\ top.mut
    /\ \E N \in GroupSizes(sizeT, top) :
          Finish(nest_call("nest_mut", sizeT, top, N, TRUE), TRUE)

as_array ==
    /\ CanCall
    /\ \E N \in GroupSizes(sizeT, top) :
          Finish(as_array_call("as_array", sizeT, top, N, FALSE), TRUE)

as_mut_array ==
    /\ CanCall /\ top.mut
    /\ \E N \in GroupSizes(sizeT, top) :
          Finish(as_array_call("as_mut_array", sizeT, top, N, TRUE), TRUE)

to_array ==
    /\ CanCall
    /\ \E N \in GroupSizes(sizeT, top) :
          Finish(to_array_call(sizeT, mem, top, N), FALSE)

\* address of element j of group i of a view (an element of a flat view is
\* its own group), and the type of that element
ElemType(v) == IF v.shape = <<>> THEN <<>> ELSE Element(v.shape)
ElemAddr(sz, v, i, j) == v.ptr + i * SizeOf(sz, v.shape) + j * SizeOf(sz, ElemType(v))

\* the caller stores x into every T of element j of group i of the view it
\* holds exclusively; the callers modelled make no call after their writes
Write(i, j, x) ==
    /\ pc \in {"running", "writing"} /\ top.mut /\ Len(stack) > 1
    /\ pc' = "writing"
    /\ writes < MaxWrites
    /\ i < top.len
    /\ j < (IF top.shape = <<>> THEN 1 ELSE LEN(top.shape))
    /\ x \in ValuesT(sizeT)
    /\ mem' = WriteCells(sizeT, mem, ElemAddr(sizeT, top, i, j), ElemType(top), x)
    /\ wrote' = [op |-> stack[Len(stack)].op, LEN |-> stack[Len(stack)].LEN,
                 view |-> top, input |-> stack[Len(stack) - 1].view,
                 i |-> i, j |-> j, x |-> x, old |-> mem]
    /\ writes' = writes + 1
    /\ UNCHANGED <<sizeT, stack, last>>

\* the view on top ends; its input is usable again
EndBorrow ==
    /\ pc \in {"running", "writing"} /\ Len(stack) > 1
    /\ stack' = SubSeq(stack, 1, Len(stack) - 1)
    /\ last' = NoCall
    /\ UNCHANGED <<sizeT, mem, wrote, writes, pc>>

WriteStep == \E i \in 0..MaxLen, j \in 0..MaxLEN, x \in CellValues \cup {Unit} : Write(i, j, x)

Next ==
    \/ flat \/ flat_mut
    \/ nest \/ nest_mut
    \/ as_array \/ as_mut_array \/ to_array
    \/ WriteStep
    \/ EndBorrow

Spec == Init /\ [][Next]_vars

TypeOK == pc \in {"running", "writing", "panicked"} /\ Len(stack) \in 1..MaxChain

\* ---- properties ----
NestOps == {"nest", "nest_mut"}
FlatOps == {"flat", "flat_mut"}
ArrayOps == {"as_array", "as_mut_array", "to_array"}
MutOps == {"flat_mut", "nest_mut", "as_mut_array"}

\* number of T values a view spans
Count(v) == v.len * Prod(v.shape)

\* the message has a formatted field showing the number k
IncludesNum(msg, k) ==
    \E p \in 1..Len(msg) : msg[p].kind = "num" /\ msg[p].digits = Digits(k)

\* C1: nest and nest_mut fail with the zero-length condition when LEN = 0
\* whatever n is, fail with the length mismatch when LEN > 0 does not divide
\* n, and otherwise return a view of exactly n / LEN groups.
C1_NestOutcome ==
    last.op \in NestOps =>
        IF last.LEN = 0 THEN last.kind = "ZeroLengthGroup"
        ELSE IF last.n % last.LEN # 0 THEN last.kind = "LengthMismatch"
        ELSE /\ last.kind = "Ok"
             /\ last.ret.len * last.LEN = last.n
             /\ top = last.ret

C1_Witness ==
    /\ last.op = "nest_mut" /\ last.kind = "Ok"
    /\ last.LEN = 2 /\ last.n = 12 /\ last.ret.len = 6

C1_WitnessZero == last.op = "nest" /\ last.LEN = 0 /\ last.n = 0 /\ pc = "panicked"
C1_WitnessMismatch ==
    last.op = "nest" /\ last.LEN = 2 /\ last.n = UsizeMax /\ last.kind = "LengthMismatch"

\* C2: as_array, as_mut_array and to_array succeed exactly when n = LEN
\* (n = LEN = 0 included) and fail with the length mismatch otherwise.
C2_ExtractExact ==
    last.op \in ArrayOps =>
        /\ last.kind = "Ok" <=> last.n = last.LEN
        /\ last.n # last.LEN => last.kind = "LengthMismatch"
        /\ last.kind = "Ok" /\ last.op # "to_array" =>
              last.ret.len = 1 /\ LEN(last.ret.shape) = last.n /\ top = last.ret
        /\ last.kind = "Ok" /\ last.op = "to_array" /\ writes = 0 =>
              last.val = <<Elems(sizeT, mem, last.input)>>

C2_Witness ==
    last.op = "as_mut_array" /\ last.kind = "Ok" /\ last.n = 0 /\ last.LEN = 0

C2_WitnessLarge ==
    last.op = "to_array" /\ last.kind = "LengthMismatch" /\ last.n = 12 /\ last.LEN = 2

\* C3: flat and flat_mut never fail; the flat view has length m * LEN, the
\* element at flat index i * LEN + j is element j of group i, and it is
\* empty when LEN = 0.
C3_FlatTotal ==
    last.op \in FlatOps =>
        /\ last.kind = "Ok"
        /\ last.ret.len = last.n * last.LEN
        /\ \A i \in 0..(last.n - 1), j \in 0..(last.LEN - 1) :
              Elem(sizeT, mem, last.ret, i * last.LEN + j)
                  = Elem(sizeT, mem, last.input, i)[j + 1]
        /\ last.LEN = 0 => Elems(sizeT, mem, last.ret) = <<>>

\* C10: the length self.len() * V::LEN computed by flat and flat_mut never
\* exceeds the machine word, so the returned length is the product m * LEN.
C10_NoOverflow ==
    last.op \in FlatOps =>
        /\ last.n * last.LEN <= UsizeMax
        /\ last.kind = "Ok" => last.ret.len = last.n * last.LEN

\* C7: only two kinds of failure exist, ZeroLengthGroup (nest, nest_mut) and
\* LengthMismatch (nest, nest_mut, as_array, as_mut_array, to_array); flat and
\* flat_mut never fail; the outcome is decided by n and LEN alone.
KindByLengths(op, n, N) ==
    IF op \in FlatOps THEN "Ok"
    ELSE IF op \in NestOps
    THEN (IF N = 0 THEN "ZeroLengthGroup"
          ELSE IF n % N # 0 THEN "LengthMismatch" ELSE "Ok")
    ELSE (IF n # N THEN "LengthMismatch" ELSE "Ok")

C7_TwoFailureKinds ==
    last.op # "none" =>
        /\ last.kind \in {"Ok", "ZeroLengthGroup", "LengthMismatch"}
        /\ last.kind = "ZeroLengthGroup" => last.op \in NestOps
        /\ last.kind = "LengthMismatch" => last.op \in NestOps \cup ArrayOps
        /\ last.op \in FlatOps => last.kind = "Ok"
        /\ last.kind = KindByLengths(last.op, last.n, last.LEN)

\* the same statements away from the overflow of the length product
FlatFits == last.op \in FlatOps => last.n * last.LEN <= UsizeMax
FlatTotalWhenFits == FlatFits => C3_FlatTotal
KindsWhenFits == FlatFits => C7_TwoFailureKinds

\* C4: nest with a group size k > 0 dividing n, then flat on the result,
\* gives back a sequence of length n with the same element at every index
\* (and so for nest_mut then flat_mut).
C4_RoundTrip ==
    /\ (last.op \in FlatOps /\ last.kind # "Ok") =>
           stack[Len(stack)].op \notin NestOps
    /\ (Len(stack) >= 3 /\ stack[Len(stack)].op \in FlatOps
            /\ stack[Len(stack) - 1].op \in NestOps) =>
           LET s == stack[Len(stack) - 2].view IN
           /\ top.len = s.len
           /\ top.ptr = s.ptr
           /\ top.shape = s.shape
           /\ \A i \in 0..(s.len - 1) :
                 Elem(sizeT, mem, top, i) = Elem(sizeT, mem, s, i)

C4_Witness ==
    /\ Len(stack) = 3 /\ stack[3].op = "flat_mut" /\ stack[2].op = "nest_mut"
    /\ stack[2].LEN = 2 /\ stack[1].view.len = 12
    /\ top.shape = <<>> /\ Elems(sizeT, mem, top) = DocFlat

\* what a store of x into every T of a value of the given type leaves there
RECURSIVE Fill(_, _)
Fill(shape, x) ==
    IF shape = <<>> THEN x ELSE [k \in 1..Head(shape) |-> Fill(Tail(shape), x)]

\* the last store through an exclusive view, seen through the view's input:
\* the corresponding position holds the value stored, every other position
\* holds what it held before
WriteSeenInInput ==
    wrote.op # "none" =>
        LET v == wrote.view
            s == wrote.input
            N == wrote.LEN
        IN  IF wrote.op \in {"nest_mut", "as_mut_array"}
            THEN \A k \in 0..(s.len - 1) :
                    Elem(sizeT, mem, s, k) =
                        IF k = wrote.i * N + wrote.j
                        THEN Fill(s.shape, wrote.x)
                        ELSE Elem(sizeT, wrote.old, s, k)
            ELSE \A g \in 0..(s.len - 1), e \in 0..(N - 1) :
                    LET now == Elem(sizeT, mem, s, g)[e + 1]
                        was == Elem(sizeT, wrote.old, s, g)[e + 1]
                    IN  now = IF g * N + e # wrote.i THEN was
                              ELSE IF v.shape = <<>> THEN wrote.x
                              ELSE [was EXCEPT ![wrote.j + 1] =
                                        Fill(Tail(v.shape), wrote.x)]

\* a view returned by an exclusive operation starts where its input starts
\* and spans the same T values
SameExtent ==
    (last.op \in MutOps /\ last.kind = "Ok") =>
        /\ last.ret.ptr = last.input.ptr
        /\ Count(last.ret) = Count(last.input)

\* C5: a view returned by flat_mut, nest_mut or as_mut_array starts at the
\* base address of its input and covers the same elements, so a store to a
\* position of the view is seen at the corresponding position of the input
\* and at no other.
C5_NoCopyAliasing == SameExtent /\ WriteSeenInInput

WriteSeenWitness ==
    /\ wrote.op = "nest_mut" /\ wrote.LEN = 2 /\ wrote.i = 1 /\ wrote.j = 1
    /\ wrote.input.len = 12 /\ mem # wrote.old
SameExtentWhenFits == FlatFits => SameExtent

\* C6 as stated: every failure of nest, nest_mut, as_array, as_mut_array or
\* to_array has a message that shows both the input length n and the group
\* size LEN.
C6_MessageShowsBoth ==
    (last.op \in NestOps \cup ArrayOps /\ last.kind # "Ok") =>
        IncludesNum(last.msg, last.n) /\ IncludesNum(last.msg, last.LEN)

\* C6 amended: every such failure has a message that shows the group size
\* LEN; a length mismatch also shows the input length n; the zero-length
\* failure of nest and nest_mut has no field for n and shows it only when
\* n = 0.
C6_MessageAmended ==
    (last.op \in NestOps \cup ArrayOps /\ last.kind # "Ok") =>
        /\ IncludesNum(last.msg, last.LEN)
        /\ last.kind = "LengthMismatch" => IncludesNum(last.msg, last.n)
        /\ last.kind = "ZeroLengthGroup" =>
              (IncludesNum(last.msg, last.n) <=> last.n = 0)

C6_Witness ==
    /\ last.op = "nest_mut" /\ last.kind = "LengthMismatch"
    /\ last.n = UsizeMax /\ last.LEN = 2
    /\ IncludesNum(last.msg, UsizeMax)

C6_WitnessZero ==
    /\ last.op = "nest" /\ last.kind = "ZeroLengthGroup" /\ last.n = 12
    /\ ~IncludesNum(last.msg, 12)

\* the doc example's flat sequence was narrowed with group size 2
DocNarrowedBy2 ==
    /\ last.op \in NestOps /\ last.LEN = 2
    /\ last.input.shape = <<>>
    /\ Elems(sizeT, mem, last.input) = DocFlat

\* C8 as stated: narrowing [2,2,2,7,7,7,4,4,4,1,1,1] with group size 2
\* succeeds and yields the 2 groups [2,2,2,7,7,7] and [4,4,4,1,1,1].
C8_TwoGroupsOfSix ==
    DocNarrowedBy2 =>
        /\ last.kind = "Ok"
        /\ last.ret.len = 2
        /\ Elems(sizeT, mem, [last.ret EXCEPT !.shape = <<6>>]) =
              << <<2, 2, 2, 7, 7, 7>>, <<4, 4, 4, 1, 1, 1>> >>

\* C8 amended: narrowing [2,2,2,7,7,7,4,4,4,1,1,1] with group size 2
\* succeeds and yields the 6 groups [2,2],[2,7],[7,7],[4,4],[4,1],[1,1].
C8_SixGroupsOfTwo ==
    DocNarrowedBy2 =>
        /\ last.kind = "Ok"
        /\ last.ret.len = 6
        /\ Elems(sizeT, mem, last.ret) =
              << <<2, 2>>, <<2, 7>>, <<7, 7>>, <<4, 4>>, <<4, 1>>, <<1, 1>> >>

C8_Witness == DocNarrowedBy2 /\ last.kind = "Ok" /\ last.op = "nest"

\* the crate's own example: the 4 triples narrowed with group size 2 are 2
\* groups of 2 triples
DocExample ==
    (last.op \in NestOps /\ last.LEN = 2 /\ last.input.shape = <<3>>
        /\ Elems(sizeT, mem, last.input) = DocNested) =>
        /\ last.kind = "Ok"
        /\ Elems(sizeT, mem, last.ret) =
              << << <<2, 2, 2>>, <<7, 7, 7>> >>, << <<4, 4, 4>>, <<1, 1, 1>> >> >>
DocExampleWitness ==
    last.op = "nest" /\ last.input.shape = <<3>> /\ last.LEN = 2
        /\ Elems(sizeT, mem, last.input) = DocNested

\* as_array, asked on the input of the last call with the same group size,
\* accepts it
AsArrayAccepts ==
    validate_as_array_assumptions(sizeT, ArrayOf(last.input.shape, last.LEN),
                                  last.n, "&")[1] = "Ok"
\* nest, asked on the input of the last call with the same group size,
\* returns one group at the same address
NestGivesOneGroup ==
    LET r == nest_call("nest", sizeT, last.input, last.LEN, FALSE) IN
    r.kind = "Ok" /\ r.ret.len = 1 /\ r.ret.ptr = last.input.ptr
        /\ Count(r.ret) = Count(last.input)

\* C9 as stated: whenever as_array (as_mut_array) accepts an input, nest
\* (nest_mut) with the same group size accepts it too and returns exactly one
\* group covering the same elements.
C9_ExtractSubsumesNarrow ==
    /\ (last.op \in NestOps /\ AsArrayAccepts) =>
          /\ last.kind = "Ok" /\ last.ret.len = 1
          /\ last.ret.ptr = last.input.ptr
          /\ Count(last.ret) = Count(last.input)
    /\ (last.op \in ArrayOps /\ last.kind = "Ok") => NestGivesOneGroup

\* C9 amended: the same whenever LEN > 0; with n = LEN = 0 as_array accepts
\* and nest fails with the zero-length condition.
C9_SubsumesWhenNonZero ==
    /\ (last.op \in NestOps /\ AsArrayAccepts) =>
          IF last.LEN = 0 THEN last.kind = "ZeroLengthGroup"
          ELSE /\ last.kind = "Ok" /\ last.ret.len = 1
               /\ last.ret.ptr = last.input.ptr
               /\ Count(last.ret) = Count(last.input)
    /\ (last.op \in ArrayOps /\ last.kind = "Ok" /\ last.LEN # 0) => NestGivesOneGroup

C9_Witness ==
    /\ last.op = "nest_mut" /\ AsArrayAccepts /\ last.kind = "Ok"
    /\ last.LEN = 12 /\ last.ret.len = 1
====
